---- MODULE Spec2Model ----
(***************************************************************************)
(* Model of src/git.py: class GitRepository, a thin controller that       *)
(* sequences git commands against one repository path and one branch.     *)
(*                                                                         *)
(* The repository is modelled by what the issued git commands read and    *)
(* write: the commit graph, the branch ref, HEAD, the index, the working  *)
(* tree, the stash stack, the annotated tags and the remote "origin".     *)
(* Every _git_redirected call is one step; its exit code is the result of *)
(* the command on the current repository state, or non-zero when the      *)
(* environment makes the command fail (lock, network, ...).               *)
(***************************************************************************)
EXTENDS Integers, Sequences, FiniteSets, TLC

(***************************************************************************)
(* Bounds of the model.                                                    *)
(***************************************************************************)
MaxContent == 2      \* file contents written by the developer: 1..MaxContent (0: no file)
MaxCalls == 3        \* lifecycle operations one caller invokes
MaxMutations == 1    \* artifact files the build step writes between prepare and commit
MaxNameLen == 2      \* length of a tag name / a pattern
MaxTags == 3         \* tags present when the tag queries run

Callers == {1, 2}            \* processes that may drive a GitRepository on the same path
Sequential == {1}            \* the single-threaded use (spec section 5)
Paths == {"f", "u"}          \* "f" is tracked at the branch tip, "u" is not
Contents == 0 .. MaxContent
Artifact == MaxContent + 1   \* content of a generated build artifact

TagArgs == {<<"a">>, <<"a", "a">>}     \* tag names passed to commit_and_tag
Alphabet == {"a", "."}                 \* characters of tag names and patterns
Names == UNION {[1 .. n -> Alphabet] : n \in 1 .. MaxNameLen}

VARIABLES
    commits,        \* commit id -> [tree, parent] (parent 0: root commit)
    branch,         \* commit the configured local branch points to (self.branch)
    HEAD,           \* 0: attached to the branch; otherwise the commit HEAD is detached at
    index,          \* staging area
    wt,             \* working tree (self.path)
    stash,          \* stash stack, stash@{0} first
    tags,           \* set of annotated tags [name, commit, date] in refs/tags
    clock,          \* tagger clock
    remoteBranch,   \* origin: commit of the branch
    remoteTags,     \* origin: set of [name, commit]
    pc,             \* per caller: the command it issues next
    arg,            \* per caller: argument of the running operation
    has_changes,    \* per caller: local of prepare_repo
    ret,            \* per caller: value returned by the last prepare_repo
    issued,         \* per caller: commands issued by the running / last operation
    calls,          \* per caller: operations invoked so far
    cyc,            \* per caller: position in the prepare -> commit_and_tag -> restore protocol
    snap,           \* per caller: repository as it was when prepare_repo was called
    made,           \* per caller: commit created by the running / last commit_and_tag (0: none)
    done,           \* per caller: operation that has just returned ("" otherwise)
    mutations,      \* artifact files written so far
    result,         \* value / exception of the last query
    self,           \* per caller: the fields of its GitRepository object
    out             \* per caller: what the running / last operation wrote and ran, in order

repoVars == <<commits, branch, HEAD, index, wt, stash, tags, clock, remoteBranch, remoteTags>>
callVars == <<pc, arg, has_changes, ret, issued, calls, cyc, snap, made, done, self, out>>
vars == <<commits, branch, HEAD, index, wt, stash, tags, clock, remoteBranch, remoteTags,
          pc, arg, has_changes, ret, issued, calls, cyc, snap, made, done, mutations, result,
          self, out>>

(***************************************************************************)
(* Repository state read by the commands.                                  *)
(***************************************************************************)
HeadCommit == IF HEAD = 0 THEN branch ELSE HEAD
HeadTree == commits[HeadCommit].tree

\* A path git reports as changed against HEAD: staged, or tracked and modified on disk.
TrackedDirty(p) == index[p] # HeadTree[p] \/ (index[p] # 0 /\ wt[p] # index[p])
\* A file on disk that is neither in the index nor in HEAD.
Untracked(p) == index[p] = 0 /\ HeadTree[p] = 0 /\ wt[p] # 0


\* The stash has something to save: "stash -u -a" also takes untracked files.
SomethingToStash == \E p \in Paths : TrackedDirty(p) \/ Untracked(p)

RECURSIVE IsAncestor(_, _)
\* a = b, or a is reachable from b through parents.
IsAncestor(a, b) ==
    IF b = 0 THEN FALSE
    ELSE IF a = b THEN TRUE
    ELSE IsAncestor(a, commits[b].parent) \/ IsAncestor(a, commits[b].other)

\* git's two-way switch of the index and the working tree from tree old to tree new:
\* a path the two trees disagree on must be unmodified locally (or already at new).
CanSwitch(old, new) ==
    \A p \in Paths :
        \/ old[p] = new[p]
        \/ index[p] = old[p] /\ wt[p] = index[p]
        \/ index[p] = new[p] /\ wt[p] = new[p]

Switched(old, new, t) == [p \in Paths |-> IF old[p] = new[p] THEN t[p] ELSE new[p]]

(***************************************************************************)
(* Exit codes.  EnvRc is what the environment adds: 0 lets the command run *)
(* on the repository state, 128 is git's fatal error (lock file, network,  *)
(* corrupt object) whatever the state.                                     *)
(***************************************************************************)
EnvRc == {0, 128}
Exit(env, rc) == IF env # 0 THEN env ELSE rc

\* _git_redirected: echo, run through the shell, return the exit code.
git_redirected(env, rc) == Exit(env, rc)

\* The control-flow of `assert ret == 0` without the assertion.
NoAssert(rc, next) == next

\* _git_redirected_success: `assert ret == 0` ends the operation with an AssertionError.
git_redirected_success(rc, next) == IF rc = 0 THEN next ELSE "aborted"

\* "checkout '<branch>'"
CheckoutRc == IF CanSwitch(HeadTree, commits[branch].tree) THEN 0 ELSE 1

\* A checkout of the branch's commit instead of the branch: HEAD ends detached.
GitCheckoutCommit(rc) ==
    IF rc = 0
    THEN /\ HEAD' = branch
         /\ index' = Switched(HeadTree, commits[branch].tree, index)
         /\ wt' = Switched(HeadTree, commits[branch].tree, wt)
         /\ UNCHANGED <<commits, branch, stash, tags, clock, remoteBranch, remoteTags>>
    ELSE UNCHANGED repoVars

GitCheckout(rc) ==
    IF rc = 0
    THEN /\ HEAD' = 0
         /\ index' = Switched(HeadTree, commits[branch].tree, index)
         /\ wt' = Switched(HeadTree, commits[branch].tree, wt)
         /\ UNCHANGED <<commits, branch, stash, tags, clock, remoteBranch, remoteTags>>
    ELSE UNCHANGED repoVars

\* "diff-index --quiet HEAD --": 1 when a tracked path differs from HEAD, else 0.
\* Untracked files are not in the index and are not reported.
ProbeRc == IF \E p \in Paths : TrackedDirty(p) THEN 1 ELSE 0

\* A stash without -u: untracked files are neither saved nor removed.
GitStashTrackedOnly(rc) ==
    IF rc = 0 /\ \E p \in Paths : TrackedDirty(p)
    THEN /\ stash' = <<[base |-> HeadTree, index |-> index,
                        wt |-> [p \in Paths |-> IF index[p] = 0 THEN 0 ELSE wt[p]]]>> \o stash
         /\ index' = HeadTree
         /\ wt' = [p \in Paths |-> IF index[p] = 0 /\ HeadTree[p] = 0 THEN wt[p]
                                    ELSE HeadTree[p]]
         /\ UNCHANGED <<commits, branch, HEAD, tags, clock, remoteBranch, remoteTags>>
    ELSE UNCHANGED repoVars

\* "stash -u -a": saves the index and the working tree (untracked files included) against
\* HEAD and resets both to HEAD; with nothing to save it creates no entry and exits 0.
GitStash(rc) ==
    IF rc = 0 /\ SomethingToStash
    THEN /\ stash' = <<[base |-> HeadTree, index |-> index, wt |-> wt]>> \o stash
         /\ index' = HeadTree
         /\ wt' = HeadTree
         /\ UNCHANGED <<commits, branch, HEAD, tags, clock, remoteBranch, remoteTags>>
    ELSE UNCHANGED repoVars

\* A variant of "checkout --detach" that leaves HEAD on the branch.
StayAttached == HEAD

\* "checkout --detach": HEAD points at the current commit, no longer at the branch.
DetachTarget == HeadCommit

GitDetach(rc) ==
    IF rc = 0
    THEN /\ HEAD' = DetachTarget
         /\ UNCHANGED <<commits, branch, index, wt, stash, tags, clock, remoteBranch, remoteTags>>
    ELSE UNCHANGED repoVars

\* "add .": stages the whole working tree, untracked files and deletions included.
GitAdd(rc) ==
    IF rc = 0
    THEN /\ index' = wt
         /\ UNCHANGED <<commits, branch, HEAD, wt, stash, tags, clock, remoteBranch, remoteTags>>
    ELSE UNCHANGED repoVars

\* "commit -m ... --author=...": exits 1 when the index equals HEAD (nothing to commit).
CommitRc == IF index = HeadTree THEN 1 ELSE 0

NewCommit == Len(commits) + 1

\* The new commit moves the branch when HEAD is attached, HEAD itself when detached.
GitCommit(rc) ==
    IF rc = 0
    THEN /\ commits' = Append(commits, [tree |-> index, parent |-> HeadCommit, other |-> 0])
         /\ IF HEAD = 0
            THEN branch' = NewCommit /\ HEAD' = HEAD
            ELSE HEAD' = NewCommit /\ branch' = branch
         /\ UNCHANGED <<index, wt, stash, tags, clock, remoteBranch, remoteTags>>
    ELSE UNCHANGED repoVars

\* "tag -a '<tag_name>' -m ...": fatal when the tag exists.
TagRc(name) == IF \E t \in tags : t.name = name THEN 128 ELSE 0

\* A variant of "tag -a" that tags the first parent of HEAD.
TagParent == commits[HeadCommit].parent

\* The commit the new annotated tag points to.
TagTarget == HeadCommit

GitTag(rc, name) ==
    IF rc = 0
    THEN /\ tags' = tags \cup {[name |-> name, commit |-> TagTarget, date |-> clock]}
         /\ clock' = clock + 1
         /\ UNCHANGED <<commits, branch, HEAD, index, wt, stash, remoteBranch, remoteTags>>
    ELSE UNCHANGED repoVars

\* "push --tags": every local tag the remote lacks is created there; a tag the remote
\* holds on another commit is rejected (exit 1), the others are still pushed.
PushRc == IF \E t \in tags : \E r \in remoteTags : r.name = t.name /\ r.commit # t.commit
          THEN 1 ELSE 0

\* A variant of the push that also pushes the current commit to the remote branch.
PushedWithBranch == HeadCommit

\* The remote branch after the push: "--tags" pushes no branch.
PushedBranch == remoteBranch

GitPush(env) ==
    IF env = 0
    THEN /\ remoteTags' = remoteTags \cup
                {[name |-> t.name, commit |-> t.commit] :
                    t \in {x \in tags : \A r \in remoteTags : r.name # x.name}}
         /\ remoteBranch' = PushedBranch
         /\ UNCHANGED <<commits, branch, HEAD, index, wt, stash, tags, clock>>
    ELSE UNCHANGED repoVars

\* "stash pop": applies stash@{0} and drops it; exit 1 with the entry kept when there is
\* no entry, when an untracked file of the entry exists on disk, or when a path the entry
\* changes is modified locally or differs from the entry's base.
InStashUntracked(e, p) == e.index[p] = 0 /\ e.wt[p] # 0

PopApplies(e) ==
    \A p \in Paths :
        IF InStashUntracked(e, p)
        THEN wt[p] = 0
        ELSE e.wt[p] # e.base[p] =>
                /\ wt[p] = index[p]
                /\ index[p] = e.base[p] \/ index[p] = e.wt[p]

PopRc == IF stash = <<>> THEN 1 ELSE IF PopApplies(Head(stash)) THEN 0 ELSE 1

PoppedWt(e) ==
    [p \in Paths |-> IF InStashUntracked(e, p) \/ e.wt[p] # e.base[p] THEN e.wt[p] ELSE wt[p]]

\* Without --index the staged state is not restored; files the entry adds stay added.
PoppedIndex(e) ==
    [p \in Paths |->
        IF ~InStashUntracked(e, p) /\ e.wt[p] # e.base[p] /\ index[p] = 0
        THEN e.wt[p] ELSE index[p]]

GitStashPop(rc) ==
    IF rc = 0
    THEN /\ wt' = PoppedWt(Head(stash))
         /\ index' = PoppedIndex(Head(stash))
         /\ stash' = Tail(stash)
         /\ UNCHANGED <<commits, branch, HEAD, tags, clock, remoteBranch, remoteTags>>
    ELSE UNCHANGED repoVars

\* "pull origin '<branch>'": fetch the remote branch and merge it into the checked-out
\* branch: nothing when it is contained, a fast-forward when it contains the local branch,
\* otherwise a merge commit of the two (exit 1 on a conflict or on local changes).
MergeBase == CHOOSE b \in 1 .. Len(commits) :
                /\ IsAncestor(b, branch) /\ IsAncestor(b, remoteBranch)
                /\ \A x \in 1 .. Len(commits) :
                      IsAncestor(x, branch) /\ IsAncestor(x, remoteBranch) => IsAncestor(x, b)

MergeConflict(base, ours, theirs) ==
    \E p \in Paths : ours[p] # base[p] /\ theirs[p] # base[p] /\ ours[p] # theirs[p]

Merged(base, ours, theirs) ==
    [p \in Paths |-> IF theirs[p] = base[p] THEN ours[p] ELSE theirs[p]]

MergedTree == Merged(commits[MergeBase].tree, commits[branch].tree, commits[remoteBranch].tree)

PullRc ==
    IF IsAncestor(remoteBranch, branch) THEN 0
    ELSE IF IsAncestor(branch, remoteBranch)
         THEN IF CanSwitch(commits[branch].tree, commits[remoteBranch].tree) THEN 0 ELSE 1
    ELSE IF /\ ~MergeConflict(commits[MergeBase].tree, commits[branch].tree,
                              commits[remoteBranch].tree)
            /\ index = commits[branch].tree
            /\ CanSwitch(commits[branch].tree, MergedTree)
         THEN 0 ELSE 1

GitPull(rc) ==
    IF rc # 0 \/ IsAncestor(remoteBranch, branch) THEN UNCHANGED repoVars
    ELSE IF IsAncestor(branch, remoteBranch)
    THEN /\ branch' = remoteBranch
         /\ index' = Switched(commits[branch].tree, commits[remoteBranch].tree, index)
         /\ wt' = Switched(commits[branch].tree, commits[remoteBranch].tree, wt)
         /\ UNCHANGED <<commits, HEAD, stash, tags, clock, remoteBranch, remoteTags>>
    ELSE /\ commits' = Append(commits,
                [tree |-> MergedTree, parent |-> branch, other |-> remoteBranch])
         /\ branch' = NewCommit
         /\ index' = Switched(commits[branch].tree, MergedTree, index)
         /\ wt' = Switched(commits[branch].tree, MergedTree, wt)
         /\ UNCHANGED <<HEAD, stash, tags, clock, remoteBranch, remoteTags>>


(***************************************************************************)
(* The operations of GitRepository.  An operation is entered from "idle"   *)
(* with its first command; pc names the command issued next.  "aborted"    *)
(* is the caller after an AssertionError: the failure halts the process.   *)
(***************************************************************************)
Cmd(name, rc) == [cmd |-> name, rc |-> rc]

\* What the operator sees of an operation, in order: print(">> git " + cmd) of line 19,
\* the command run by subprocess.call of lines 20-21, and the other prints.
Echo(name) == [event |-> "echo", text |-> name]
Executed(name) == [event |-> "exec", text |-> name]
Message(text) == [event |-> "print", text |-> text]

\* A _git_redirected that runs the command without the print.
RunSilently(log, name) == Append(log, Executed(name))

\* _git_redirected, lines 19-21: the echo, then the command.
Redirected(log, name) == Append(Append(log, Echo(name)), Executed(name))

Enter(c, op, a) ==
    /\ pc[c] = "idle"
    /\ calls[c] < MaxCalls
    /\ calls' = [calls EXCEPT ![c] = @ + 1]
    /\ arg' = [arg EXCEPT ![c] = a]

\* The repository as prepare_repo finds it.
Snapshot == [wt |-> wt, index |-> index, stash |-> stash, branch |-> branch,
             tree |-> HeadTree, dirty |-> \E p \in Paths : TrackedDirty(p), built |-> FALSE,
             probe |-> 0, tag |-> <<>>]

\* prepare_repo, line 52: checkout of the branch.
prepare_repo(c) ==
    /\ Enter(c, "prepare_repo", FALSE)
    /\ \E env \in EnvRc :
          LET rc == git_redirected(env, CheckoutRc) IN
          /\ GitCheckout(rc)
          /\ pc' = [pc EXCEPT ![c] = git_redirected_success(rc, "probe")]
          /\ issued' = [issued EXCEPT ![c] = <<Cmd("checkout", rc)>>]
          /\ out' = [out EXCEPT ![c] = Redirected(<<>>, "checkout")]
    /\ cyc' = [cyc EXCEPT ![c] = IF HEAD = 0 THEN "preparing" ELSE "none"]
    /\ snap' = [snap EXCEPT ![c] = Snapshot]
    /\ done' = [done EXCEPT ![c] = ""]
    /\ UNCHANGED <<has_changes, ret, made, mutations, result, self>>

\* The probe's exit code read the other way round.
ZeroMeansChanges(rc) == rc = 0

\* has_changes = self._git_redirected("diff-index --quiet HEAD --") != 0
HasChanges(rc) == rc # 0

\* A probe called through _git_redirected_success.
ProbeAsserted(rc) == git_redirected_success(rc, "detach")

\* `if has_changes:` of line 57: the stash, or straight on to the detach.
AfterProbe(rc) == IF HasChanges(rc) THEN "stash" ELSE "detach"

\* prepare_repo, line 54: the dirty probe; its exit code is a value, never an error.
prepare_repo_probe(c) ==
    /\ pc[c] = "probe"
    /\ \E env \in EnvRc :
          LET rc == git_redirected(env, ProbeRc) IN
          /\ has_changes' = [has_changes EXCEPT ![c] = HasChanges(rc)]
          /\ pc' = [pc EXCEPT ![c] = AfterProbe(rc)]
          /\ issued' = [issued EXCEPT ![c] = Append(@, Cmd("diff-index", rc))]
          /\ out' = [out EXCEPT ![c] = Redirected(@, "diff-index")]
          /\ snap' = [snap EXCEPT ![c].probe = rc]
    /\ UNCHANGED <<repoVars, arg, ret, calls, cyc, made, done, mutations, result, self>>

\* prepare_repo, lines 57-60: stash when has_changes.
prepare_repo_stash(c) ==
    /\ pc[c] = "stash"
    /\ \E env \in EnvRc :
          LET rc == git_redirected(env, 0) IN
          /\ GitStash(rc)
          /\ pc' = [pc EXCEPT ![c] = git_redirected_success(rc, "detach")]
          /\ issued' = [issued EXCEPT ![c] = Append(@, Cmd("stash", rc))]
          /\ out' = [out EXCEPT ![c] =
                        Redirected(Append(@, Message("Stashing local changes for later recovery")),
                                   "stash")]
    /\ UNCHANGED <<arg, has_changes, ret, calls, cyc, snap, made, done, mutations, result, self>>

\* prepare_repo, lines 63-65: detach HEAD and return stashed_changes.
prepare_repo_detach(c) ==
    /\ pc[c] = "detach"
    /\ \E env \in EnvRc :
          LET rc == git_redirected(env, 0)
              to == git_redirected_success(rc, "idle") IN
          /\ GitDetach(rc)
          /\ pc' = [pc EXCEPT ![c] = to]
          /\ issued' = [issued EXCEPT ![c] = Append(@, Cmd("detach", rc))]
          /\ out' = [out EXCEPT ![c] = Redirected(@, "detach")]
          /\ IF to = "idle"
             THEN /\ ret' = [ret EXCEPT ![c] = has_changes[c]]
                  /\ done' = [done EXCEPT ![c] = "prepare_repo"]
                  /\ cyc' = [cyc EXCEPT ![c] = IF @ = "preparing" THEN "prepared" ELSE "none"]
             ELSE UNCHANGED <<ret, done, cyc>>
    /\ UNCHANGED <<arg, has_changes, calls, snap, made, mutations, result, self>>

\* The build step of the caller between prepare_repo and commit_and_tag: it writes a
\* generated file into the working tree.
Build(c) ==
    /\ pc[c] = "idle"
    /\ cyc[c] = "prepared"
    /\ mutations < MaxMutations
    /\ mutations' = mutations + 1
    /\ \E p \in Paths : wt' = [wt EXCEPT ![p] = Artifact]
    /\ snap' = [snap EXCEPT ![c].built = TRUE]
    /\ done' = [done EXCEPT ![c] = ""]
    /\ UNCHANGED <<commits, branch, HEAD, index, stash, tags, clock, remoteBranch, remoteTags,
                   pc, arg, has_changes, ret, issued, calls, cyc, made, result, self, out>>

\* commit_and_tag, line 68: add.
commit_and_tag(c) ==
    /\ \E name \in TagArgs :
          /\ Enter(c, "commit_and_tag", name)
          /\ snap' = [snap EXCEPT ![c].tag = name]
    /\ \E env \in EnvRc :
          LET rc == git_redirected(env, 0) IN
          /\ GitAdd(rc)
          /\ pc' = [pc EXCEPT ![c] = git_redirected_success(rc, "commit")]
          /\ issued' = [issued EXCEPT ![c] = <<Cmd("add", rc)>>]
          /\ out' = [out EXCEPT ![c] = Redirected(<<>>, "add")]
    /\ cyc' = [cyc EXCEPT ![c] = IF @ = "prepared" THEN "committing" ELSE "none"]
    /\ made' = [made EXCEPT ![c] = 0]
    /\ done' = [done EXCEPT ![c] = ""]
    /\ UNCHANGED <<has_changes, ret, mutations, result, self>>

\* commit_and_tag, lines 69-70: commit.
commit_and_tag_commit(c) ==
    /\ pc[c] = "commit"
    /\ \E env \in EnvRc :
          LET rc == git_redirected(env, CommitRc) IN
          /\ GitCommit(rc)
          /\ pc' = [pc EXCEPT ![c] = git_redirected_success(rc, "tag")]
          /\ issued' = [issued EXCEPT ![c] = Append(@, Cmd("commit", rc))]
          /\ out' = [out EXCEPT ![c] = Redirected(@, "commit")]
          /\ made' = [made EXCEPT ![c] = IF rc = 0 THEN NewCommit ELSE @]
    /\ UNCHANGED <<arg, has_changes, ret, calls, cyc, snap, done, mutations, result, self>>

\* commit_and_tag, line 71: annotated tag.
commit_and_tag_tag(c) ==
    /\ pc[c] = "tag"
    /\ \E env \in EnvRc :
          LET rc == git_redirected(env, TagRc(arg[c])) IN
          /\ GitTag(rc, arg[c])
          /\ pc' = [pc EXCEPT ![c] = git_redirected_success(rc, "push")]
          /\ issued' = [issued EXCEPT ![c] = Append(@, Cmd("tag", rc))]
          /\ out' = [out EXCEPT ![c] = Redirected(@, "tag")]
    /\ UNCHANGED <<arg, has_changes, ret, calls, cyc, snap, made, done, mutations, result, self>>

\* commit_and_tag, line 72: push of the tags, then return.
commit_and_tag_push(c) ==
    /\ pc[c] = "push"
    /\ \E env \in EnvRc :
          LET rc == git_redirected(env, PushRc)
              to == git_redirected_success(rc, "idle") IN
          /\ GitPush(env)
          /\ pc' = [pc EXCEPT ![c] = to]
          /\ issued' = [issued EXCEPT ![c] = Append(@, Cmd("push --tags", rc))]
          /\ out' = [out EXCEPT ![c] = Redirected(@, "push --tags")]
          /\ IF to = "idle"
             THEN /\ done' = [done EXCEPT ![c] = "commit_and_tag"]
                  /\ cyc' = [cyc EXCEPT ![c] = IF @ = "committing" THEN "committed" ELSE "none"]
             ELSE UNCHANGED <<done, cyc>>
    /\ UNCHANGED <<arg, has_changes, ret, calls, snap, made, mutations, result, self>>

\* The protocol position restore_repo(s) starts from: the caller threads the flag
\* prepare_repo returned.
Restoring(c, s) ==
    IF s = ret[c] /\ cyc[c] = "prepared" THEN "restoringP"
    ELSE IF s = ret[c] /\ cyc[c] = "committed" THEN "restoringC"
    ELSE "none"

Restored(from) ==
    IF from = "restoringP" THEN "restoredP"
    ELSE IF from = "restoringC" THEN "restoredC"
    ELSE "none"

\* restore_repo that never pops.
NeverPop(s) == "idle"

\* restore_repo that pops when the last prepare_repo stashed, whatever its argument:
\* the flag kept in the object.
PopWhenPrepareStashed(s) == IF \E c \in Sequential : ret[c] THEN "pop" ELSE "idle"

\* restore_repo that pops whatever its argument.
AlwaysPop(s) == "pop"

\* `if stashed_changes:` in restore_repo.
AfterCheckout(s) == IF s THEN "pop" ELSE "idle"

\* restore_repo, line 75: checkout of the branch; returns here when not stashed_changes.
restore_repo(c) ==
    \E s \in BOOLEAN :
        /\ Enter(c, "restore_repo", s)
        /\ \E env \in EnvRc :
              LET rc == git_redirected(env, CheckoutRc)
                  to == git_redirected_success(rc, AfterCheckout(s)) IN
              /\ GitCheckout(rc)
              /\ pc' = [pc EXCEPT ![c] = to]
              /\ issued' = [issued EXCEPT ![c] = <<Cmd("checkout", rc)>>]
              /\ out' = [out EXCEPT ![c] = Redirected(<<>>, "checkout")]
              /\ cyc' = [cyc EXCEPT ![c] =
                            IF to = "idle"
                            THEN Restored(Restoring(c, s))
                            ELSE Restoring(c, s)]
              /\ done' = [done EXCEPT ![c] = IF to = "idle" THEN "restore_repo" ELSE ""]
        /\ UNCHANGED <<has_changes, ret, snap, made, mutations, result, self>>


\* restore_repo, lines 77-79: stash pop when stashed_changes.
restore_repo_pop(c) ==
    /\ pc[c] = "pop"
    /\ \E env \in EnvRc :
          LET rc == git_redirected(env, PopRc)
              to == git_redirected_success(rc, "idle") IN
          /\ GitStashPop(rc)
          /\ pc' = [pc EXCEPT ![c] = to]
          /\ issued' = [issued EXCEPT ![c] = Append(@, Cmd("stash pop", rc))]
          /\ out' = [out EXCEPT ![c] =
                        Redirected(Append(@, Message("Restoring previous changes")), "stash pop")]
          /\ IF to = "idle"
             THEN /\ done' = [done EXCEPT ![c] = "restore_repo"]
                  /\ cyc' = [cyc EXCEPT ![c] = Restored(@)]
             ELSE UNCHANGED <<done, cyc>>
    /\ UNCHANGED <<arg, has_changes, ret, calls, snap, made, mutations, result, self>>

\* update_repository, line 48: checkout of the branch.
update_repository(c) ==
    /\ Enter(c, "update_repository", FALSE)
    /\ \E env \in EnvRc :
          LET rc == git_redirected(env, CheckoutRc) IN
          /\ GitCheckout(rc)
          /\ pc' = [pc EXCEPT ![c] = git_redirected_success(rc, "pull")]
          /\ issued' = [issued EXCEPT ![c] = <<Cmd("checkout", rc)>>]
          /\ out' = [out EXCEPT ![c] = Redirected(<<>>, "checkout")]
    /\ cyc' = [cyc EXCEPT ![c] = "none"]
    /\ done' = [done EXCEPT ![c] = ""]
    /\ UNCHANGED <<has_changes, ret, snap, made, mutations, result, self>>

\* update_repository, line 49: pull of the branch from origin, then return.
update_repository_pull(c) ==
    /\ pc[c] = "pull"
    /\ \E env \in EnvRc :
          LET rc == git_redirected(env, PullRc)
              to == git_redirected_success(rc, "idle") IN
          /\ GitPull(rc)
          /\ pc' = [pc EXCEPT ![c] = to]
          /\ issued' = [issued EXCEPT ![c] = Append(@, Cmd("pull", rc))]
          /\ out' = [out EXCEPT ![c] = Redirected(@, "pull")]
          /\ done' = [done EXCEPT ![c] = IF to = "idle" THEN "update_repository" ELSE @]
    /\ UNCHANGED <<arg, has_changes, ret, calls, cyc, snap, made, mutations, result, self>>

(***************************************************************************)
(* The tag queries: get_log and get_latest_tag_commit run                  *)
(*   for-each-ref --sort=-taggerdate --format '%(tag)' refs/tags           *)
(*     | grep '<pattern>' | head -n<N>                                     *)
(* through the shell and read its output.                                  *)
(***************************************************************************)
RECURSIVE ForEachRef(_)
\* The tag names, one per line, newest tagger date first.
ForEachRef(T) ==
    IF T = {} THEN <<>>
    ELSE LET t == CHOOSE x \in T : \A y \in T : y.date <= x.date
         IN  <<t.name>> \o ForEachRef(T \ {t})

\* grep '<pattern>': the pattern is a basic regular expression searched anywhere in the
\* line; "." stands for any one character.
GrepMatch(pattern, line) ==
    \E k \in 0 .. (Len(line) - Len(pattern)) :
        \A i \in 1 .. Len(pattern) : pattern[i] = "." \/ pattern[i] = line[k + i]

Grep(pattern, lines) == SelectSeq(lines, LAMBDA l : GrepMatch(pattern, l))

\* head -n<N>
HeadLines(n, lines) == SubSeq(lines, 1, IF Len(lines) < n THEN Len(lines) ELSE n)

\* The pipeline's exit status is that of head, 0, also when grep selects nothing.
TagQuery(pattern, n) == HeadLines(n, Grep(pattern, ForEachRef(tags)))

TagCommit(name) == (CHOOSE t \in tags : t.name = name).commit

\* rev-parse --short prints the abbreviated object name: lower-case hexadecimal digits,
\* the same digits for the same commit and other digits for another commit.
HexDigits == <<"0", "1", "2", "3", "4", "5", "6", "7", "8", "9", "a", "b", "c", "d", "e", "f">>
ShortHash(commit) == <<HexDigits[((commit * 5) % 16) + 1], HexDigits[(commit % 16) + 1]>>

UpperCase == [ch \in {"a", "b", "c", "d", "e", "f"} |->
                 CASE ch = "a" -> "A" [] ch = "b" -> "B" [] ch = "c" -> "C"
                   [] ch = "d" -> "D" [] ch = "e" -> "E" [] ch = "f" -> "F"]

\* str.upper()
Upper(str) == [i \in 1 .. Len(str) |-> IF str[i] \in DOMAIN UpperCase THEN UpperCase[str[i]]
                                        ELSE str[i]]

\* str.lower() of line 29.
Lower(str) ==
    [i \in 1 .. Len(str) |->
        IF \E ch \in DOMAIN UpperCase : UpperCase[ch] = str[i]
        THEN CHOOSE ch \in DOMAIN UpperCase : UpperCase[ch] = str[i]
        ELSE str[i]]

\* "log {}^..{}^".format(tags[1], tags[0]): <<lower, upper>>
LogRange(t) == <<t[2], t[1]>>

\* Exception raised by tags[1] / tags[0] in line 39: Python's IndexError.
Indexing(t) == IF Len(t) < 2 THEN "IndexError" ELSE ""

\* No query has been made yet: a query leaves the repository as it is, so one query per
\* run shows all there is.
NoResult == [op |-> "", pattern |-> <<>>, raised |-> "", indexed |-> 0, range |-> <<>>,
             value |-> <<>>]

\* get_commit, lines 28-29: rev-parse --short of the branch, lower-cased.
get_commit(c) ==
    /\ pc[c] = "idle"
    /\ result = NoResult
    /\ result' = [op |-> "get_commit", pattern |-> <<>>, raised |-> "", indexed |-> 0,
                  range |-> <<>>, value |-> Lower(ShortHash(branch))]
    /\ UNCHANGED <<repoVars, callVars, mutations>>

\* get_log, lines 31-39.
get_log(c) ==
    /\ pc[c] = "idle"
    /\ result = NoResult
    /\ \E pattern \in Names :
          LET t == TagQuery(pattern, 2) IN
          result' =
             IF Indexing(t) # ""
             THEN [op |-> "get_log", pattern |-> pattern, raised |-> Indexing(t),
                   indexed |-> 2, range |-> <<>>, value |-> <<>>]
             ELSE IF \E i \in 1 .. 2 : commits[TagCommit(t[i])].parent = 0
             THEN [op |-> "get_log", pattern |-> pattern, raised |-> "CalledProcessError",
                   indexed |-> 2, range |-> LogRange(t), value |-> <<>>]
             ELSE [op |-> "get_log", pattern |-> pattern, raised |-> "",
                   indexed |-> 2, range |-> LogRange(t),
                   value |-> <<commits[TagCommit(LogRange(t)[1])].parent,
                               commits[TagCommit(LogRange(t)[2])].parent>>]
    /\ UNCHANGED <<repoVars, callVars, mutations>>

\* get_latest_tag_commit, lines 41-45.
get_latest_tag_commit(c) ==
    /\ pc[c] = "idle"
    /\ result = NoResult
    /\ \E pattern \in Names :
          LET t == TagQuery(pattern, 1) IN
          result' =
             IF t = <<>> \/ commits[TagCommit(t[1])].parent = 0
             THEN [op |-> "get_latest_tag_commit", pattern |-> pattern,
                   raised |-> "CalledProcessError", indexed |-> 0, range |-> t,
                   value |-> <<>>]
             ELSE [op |-> "get_latest_tag_commit", pattern |-> pattern, raised |-> "",
                   indexed |-> 0, range |-> t,
                   value |-> ShortHash(commits[TagCommit(t[1])].parent)]
    /\ UNCHANGED <<repoVars, callVars, mutations>>

(***************************************************************************)
(* The repository a caller starts from: HEAD on the configured branch,     *)
(* whose tip (commit 2) tracks "f" and not "u"; any index and working tree *)
(* the developer left in the working tree; the remote one commit ahead; an *)
(* older tag; possibly an older stash entry.                               *)
(***************************************************************************)
Tree(f, u) == [p \in Paths |-> IF p = "f" THEN f ELSE u]

InitCommits == <<[tree |-> Tree(2, 0), parent |-> 0, other |-> 0],
                 [tree |-> Tree(1, 0), parent |-> 1, other |-> 0],
                 [tree |-> Tree(2, 0), parent |-> 2, other |-> 0]>>

OldStash == [base |-> Tree(1, 0), index |-> Tree(1, 0), wt |-> Tree(2, 0)]
OldTag == [name |-> <<"a", "a">>, commit |-> 2, date |-> 1]

NoSnapshot == [wt |-> Tree(0, 0), index |-> Tree(0, 0), stash |-> <<>>, branch |-> 0,
               tree |-> Tree(0, 0), dirty |-> FALSE, built |-> FALSE, probe |-> 0, tag |-> <<>>]

\* __init__, lines 8-10: the object has the two fields branch and path.
GitRepository(path, name) == [branch |-> name, path |-> path]

InitCallers ==
    /\ pc = [c \in Callers |-> "idle"]
    /\ arg = [c \in Callers |-> FALSE]
    /\ has_changes = [c \in Callers |-> FALSE]
    /\ ret = [c \in Callers |-> FALSE]
    /\ issued = [c \in Callers |-> <<>>]
    /\ calls = [c \in Callers |-> 0]
    /\ cyc = [c \in Callers |-> "none"]
    /\ snap = [c \in Callers |-> NoSnapshot]
    /\ made = [c \in Callers |-> 0]
    /\ done = [c \in Callers |-> ""]
    /\ self = [c \in Callers |-> GitRepository("repo", "master")]
    /\ out = [c \in Callers |-> <<>>]
    /\ mutations = 0
    /\ result = NoResult

InitRepo ==
    /\ commits = InitCommits
    /\ branch = 2
    /\ HEAD = 0
    /\ wt \in [Paths -> Contents]
    /\ stash \in {<<>>, <<OldStash>>}
    /\ tags = {OldTag}
    /\ clock = 2
    /\ remoteBranch = 3
    /\ remoteTags = {[name |-> t.name, commit |-> t.commit] : t \in tags}

\* Any operation in any order: the developer has staged nothing or everything.
Init ==
    /\ InitRepo
    /\ index \in {InitCommits[2].tree, wt}
    /\ InitCallers

\* The protocol: any index, whatever the developer staged.
InitCycle ==
    /\ InitRepo
    /\ index \in [Paths -> Contents]
    /\ InitCallers

Lifecycle(c) ==
    \/ prepare_repo(c)
    \/ prepare_repo_probe(c)
    \/ prepare_repo_stash(c)
    \/ prepare_repo_detach(c)
    \/ Build(c)
    \/ commit_and_tag(c)
    \/ commit_and_tag_commit(c)
    \/ commit_and_tag_tag(c)
    \/ commit_and_tag_push(c)
    \/ restore_repo(c)
    \/ restore_repo_pop(c)
    \/ update_repository(c)
    \/ update_repository_pull(c)

Next == \E c \in Sequential : Lifecycle(c)

Spec == Init /\ [][Next]_vars

\* A caller that keeps to the protocol of spec section 4.3: prepare_repo, the build,
\* optionally commit_and_tag, then restore_repo with the flag prepare_repo returned.
Kept(c) == cyc'[c] # "none"

Protocol(c) ==
    \/ prepare_repo(c) /\ Kept(c)
    \/ prepare_repo_probe(c) /\ Kept(c)
    \/ prepare_repo_stash(c) /\ Kept(c)
    \/ prepare_repo_detach(c) /\ Kept(c)
    \/ Build(c) /\ Kept(c)
    \/ commit_and_tag(c) /\ Kept(c)
    \/ commit_and_tag_commit(c) /\ Kept(c)
    \/ commit_and_tag_tag(c) /\ Kept(c)
    \/ commit_and_tag_push(c) /\ Kept(c)
    \/ restore_repo(c) /\ Kept(c)
    \/ restore_repo_pop(c) /\ Kept(c)

NextCycle == \E c \in Sequential : Protocol(c)

SpecCycle == InitCycle /\ [][NextCycle]_vars


(***************************************************************************)
(* The release step: a caller that keeps to the protocol and, once         *)
(* commit_and_tag has returned, asks for the branch's commit or for the    *)
(* commit before the newest tag matching a pattern.                        *)
(***************************************************************************)
Released(c) == cyc[c] = "committed"

Release(c) ==
    \/ Protocol(c)
    \/ get_commit(c) /\ Released(c)
    \/ get_latest_tag_commit(c) /\ Released(c)

NextRelease == \E c \in Sequential : Release(c)

SpecRelease == Init /\ [][NextRelease]_vars

(***************************************************************************)
(* Two processes, each with its own GitRepository object on the same path  *)
(* and each running one cycle of the protocol; their commands interleave.  *)
(* The repository starts with one modified tracked file.                   *)
(***************************************************************************)
InitConc ==
    /\ InitRepo
    /\ stash = <<>>
    /\ index = InitCommits[2].tree
    /\ wt = InitCommits[1].tree
    /\ InitCallers

\* One cycle: the caller keeps to the protocol and stops after restore_repo.
Once(c) == cyc[c] \notin {"restoredP", "restoredC"} /\ Kept(c)

Cycle(c) ==
    \/ prepare_repo(c) /\ Once(c)
    \/ prepare_repo_probe(c) /\ Once(c)
    \/ prepare_repo_stash(c) /\ Once(c)
    \/ prepare_repo_detach(c) /\ Once(c)
    \/ Build(c) /\ Once(c)
    \/ commit_and_tag(c) /\ Once(c)
    \/ commit_and_tag_commit(c) /\ Once(c)
    \/ commit_and_tag_tag(c) /\ Once(c)
    \/ commit_and_tag_push(c) /\ Once(c)
    \/ restore_repo(c) /\ Once(c)
    \/ restore_repo_pop(c) /\ Once(c)

NextConc == \E c \in Callers : Cycle(c)

SpecConc == InitConc /\ [][NextConc]_vars

(***************************************************************************)
(* The tag queries on their own: a repository with a chain of commits and  *)
(* up to MaxTags annotated tags, the tag created i-th on commit i.         *)
(***************************************************************************)
Chain == [i \in 1 .. (MaxTags + 1) |-> [tree |-> Tree(1, 0), parent |-> i - 1, other |-> 0]]

\* The tags: k distinct names, the i-th created on commit i at date i.
TagsNamed(names) ==
    {[name |-> names[i], commit |-> i, date |-> i] : i \in 1 .. Len(names)}

InitTags ==
    /\ commits = Chain
    /\ branch = MaxTags + 1
    /\ HEAD = 0
    /\ index = Tree(1, 0)
    /\ wt = Tree(1, 0)
    /\ stash = <<>>
    /\ \E k \in 0 .. MaxTags :
          \E names \in [1 .. k -> Names] :
             /\ \A i, j \in 1 .. k : i # j => names[i] # names[j]
             /\ tags = TagsNamed(names)
    /\ clock = MaxTags + 1
    /\ remoteBranch = MaxTags + 1
    /\ remoteTags = {[name |-> t.name, commit |-> t.commit] : t \in tags}
    /\ InitCallers

NextTags == \E c \in Sequential : get_log(c) \/ get_latest_tag_commit(c)

SpecTags == InitTags /\ [][NextTags]_vars


(***************************************************************************)
(* Properties.                                                             *)
(***************************************************************************)
\* The developer's uncommitted work at path p when prepare_repo was called: the working
\* tree differed from the branch tip there.
Work(c, p) == snap[c].wt[p] # snap[c].tree[p]

WorkPresent(c) == \A p \in Paths : Work(c, p) => wt[p] = snap[c].wt[p]

\* No command of the cycle failed: the probe answered 0 (clean) or 1 (changes).
ProbeAnswered(c) == snap[c].probe \in {0, 1}

CleanAtPrepare(c) == snap[c].wt = snap[c].tree /\ snap[c].index = snap[c].tree

Returned(c, op) == pc[c] = "idle" /\ done[c] = op

\* C1: after a cycle prepare_repo -> build -> commit_and_tag(T) -> restore_repo(flag) in
\* which every command succeeded, from any working tree on the branch, the developer's
\* uncommitted work is in the working tree again and none of it is in the commit T names.
C1_WorkSurvivesCycle ==
    \A c \in Sequential :
        cyc[c] = "restoredC" /\ snap[c].built /\ ProbeAnswered(c) =>
            /\ WorkPresent(c)
            /\ \A p \in Paths : Work(c, p) => commits[made[c]].tree[p] # snap[c].wt[p]

\* C2: prepare_repo immediately followed by restore_repo(returned flag), all commands
\* succeeding, ends on the branch with the working tree and the stash stack as before.
C2_RoundTrip ==
    \A c \in Sequential :
        cyc[c] = "restoredP" /\ ~snap[c].built /\ ProbeAnswered(c) =>
            /\ HEAD = 0
            /\ wt = snap[c].wt
            /\ stash = snap[c].stash

C2_Witness ==
    /\ cyc[1] = "restoredP" /\ ~snap[1].built /\ ProbeAnswered(1)
    /\ ret[1] /\ snap[1].wt # snap[1].tree /\ snap[1].stash # <<>>

InCycle == {"prepared", "committing", "committed", "restoringP", "restoringC",
            "restoredP", "restoredC"}

\* C3: a returned prepare_repo leaves HEAD detached; from the checkout in prepare_repo to
\* the end of restore_repo the branch points to the commit it pointed to, and the commit
\* made by commit_and_tag(T) is reachable from no branch and from no tag but T.
C3_BranchNotAdvanced ==
    \A c \in Sequential :
        /\ cyc[c] = "preparing" \/ cyc[c] \in InCycle => branch = snap[c].branch
        /\ cyc[c] = "prepared" /\ Returned(c, "prepare_repo") => HEAD # 0
        /\ cyc[c] \in {"committing", "committed", "restoringC", "restoredC"} /\ made[c] # 0 =>
              /\ ~IsAncestor(made[c], branch)
              /\ ~IsAncestor(made[c], remoteBranch)
              /\ \A t \in tags : IsAncestor(made[c], t.commit) => t.name = snap[c].tag
        /\ cyc[c] \in {"committed", "restoringC", "restoredC"} =>
              \E t \in tags : t.name = snap[c].tag /\ t.commit = made[c]

C3_Witness == cyc[1] = "restoredC" /\ made[1] # 0 /\ HEAD = 0 /\ branch = snap[1].branch

\* C4: prepare_repo called on a dirty tree returns True with a new entry on top of the
\* stash stack; after restore_repo(True) the entry is gone and the uncommitted changes
\* are in the working tree again.
C4_DirtyStashedAndRestored ==
    \A c \in Sequential :
        /\ cyc[c] = "prepared" /\ Returned(c, "prepare_repo") /\ snap[c].dirty =>
              /\ ret[c] = TRUE
              /\ stash = <<[base |-> snap[c].tree, index |-> snap[c].index,
                            wt |-> snap[c].wt]>> \o snap[c].stash
        /\ cyc[c] \in {"restoredP", "restoredC"} /\ snap[c].dirty =>
              /\ ret[c] = TRUE
              /\ stash = snap[c].stash
              /\ WorkPresent(c)

C4_Witness ==
    /\ cyc[1] = "restoredC" /\ snap[1].dirty /\ snap[1].wt # snap[1].tree
    /\ snap[1].stash # <<>> /\ wt = snap[1].wt

StashIssued(c) == \E i \in 1 .. Len(issued[c]) : issued[c][i].cmd = "stash"

FailStopLog(c) ==
    \A i \in 1 .. Len(issued[c]) :
        issued[c][i].rc # 0 /\ issued[c][i].cmd # "diff-index" =>
            i = Len(issued[c]) /\ pc[c] = "aborted"

\* C6: every command but the dirty probe is issued only after all earlier commands of
\* the operation exited 0; the first non-zero exit aborts the operation, which then
\* issues nothing more (no retry, no rollback).
C6_FailStop ==
    [][/\ \A c \in Callers : FailStopLog(c)'
       /\ \A c \in Callers : pc[c] = "aborted" =>
             pc'[c] = "aborted" /\ issued'[c] = issued[c]]_vars

C6_Witness ==
    /\ pc[1] = "aborted" /\ Len(issued[1]) = 2
    /\ issued[1][1] = Cmd("add", 0) /\ issued[1][2] = Cmd("commit", 1)

\* C8: no operation pushes a branch: the remote's branch stays where it was and the
\* remote only gains tags, through the push that ends commit_and_tag.
C8_OnlyTagsPushed ==
    /\ remoteBranch = Len(InitCommits)
    /\ \A r \in remoteTags :
          \/ r = [name |-> OldTag.name, commit |-> OldTag.commit]
          \/ \E t \in tags : t.name = r.name /\ t.commit = r.commit
    /\ [name |-> OldTag.name, commit |-> OldTag.commit] \in remoteTags
    /\ \A c \in Callers : \A i \in 1 .. Len(issued[c]) :
          issued[c][i].cmd = "push --tags" =>
              i = 4 /\ issued[c][1].cmd = "add" /\ issued[c][3].cmd = "tag"

C8_Witness ==
    /\ Returned(1, "commit_and_tag") /\ Cardinality(remoteTags) = 2
    /\ HEAD # 0 /\ HeadCommit # remoteBranch

\* C9: after a returned commit_and_tag(T), T is an annotated tag on the commit that call
\* created, T is the first line of the tag query for pattern T, and the remote holds T
\* on the same commit.
C9_TagCreatedNewestPushed ==
    \A c \in Sequential :
        Returned(c, "commit_and_tag") =>
            /\ made[c] > Len(InitCommits)
            /\ \E t \in tags : t.name = arg[c] /\ t.commit = made[c]
                                /\ \A o \in tags : o # t => o.date < t.date
            /\ TagQuery(arg[c], 1) = <<arg[c]>>
            /\ [name |-> arg[c], commit |-> made[c]] \in remoteTags

C9_Witness ==
    /\ Returned(1, "commit_and_tag") /\ arg[1] = <<"a">>
    /\ \E o \in tags : o.name # arg[1] /\ GrepMatch(arg[1], o.name)


\* The pattern occurs in the line as a substring.
FixedStringMatch(pattern, line) ==
    \E k \in 0 .. (Len(line) - Len(pattern)) :
        \A i \in 1 .. Len(pattern) : pattern[i] = line[k + i]

\* The tags whose name contains the pattern as a substring, newest first.
Containing(pattern) ==
    SelectSeq(ForEachRef(tags), LAMBDA l : FixedStringMatch(pattern, l))

\* C7: with fewer than two tags matching the pattern, get_log fails with a dedicated
\* insufficient-tags error, indexes no position past the end of the tag list and issues
\* no log query.
C7_InsufficientTagsError ==
    result.op = "get_log" /\ Len(Grep(result.pattern, ForEachRef(tags))) < 2 =>
        /\ result.raised = "InsufficientTags"
        /\ result.indexed <= Len(TagQuery(result.pattern, 2))
        /\ result.range = <<>>

\* C10: with at least two tags containing the pattern, get_log asks for the range from
\* the second-newest to the newest tag containing the pattern (older^..newer^), and no
\* tag that does not contain the pattern is ever a boundary of the range.
C10_RangeOfContainingTags ==
    result.op = "get_log" =>
        /\ Len(Containing(result.pattern)) >= 2 =>
              result.range = <<Containing(result.pattern)[2], Containing(result.pattern)[1]>>
        /\ \A i \in 1 .. Len(result.range) : FixedStringMatch(result.pattern, result.range[i])

\* The commands of a log of Cmd records, in the order they were issued.
CmdNames(log) == [i \in 1 .. Len(log) |-> log[i].cmd]

\* C11: the controller keeps no state between calls: its object has the fields path and
\* branch only (no stashed flag), no operation changes them, and restore_repo(s) issues
\* the checkout and then stash pop exactly when its argument s is True, whatever an
\* earlier prepare_repo returned.
C11_NoControllerState ==
    \A c \in Sequential :
        /\ DOMAIN self[c] = {"branch", "path"}
        /\ self[c] = GitRepository("repo", "master")
        /\ pc[c] = "pop" => arg[c] = TRUE
        /\ Returned(c, "restore_repo") =>
              CmdNames(issued[c]) =
                 IF arg[c] = TRUE THEN <<"checkout", "stash pop">> ELSE <<"checkout">>

\* restore_repo(False) has returned after a prepare_repo that returned True.
C11_Witness ==
    /\ Returned(1, "restore_repo") /\ arg[1] = FALSE /\ ret[1] = TRUE
    /\ issued[1] = <<Cmd("checkout", 0)>> /\ stash # <<>>

\* The commands a log of output events shows as run, in order.
ExecEvents(log) == SelectSeq(log, LAMBDA e : e.event = "exec")

\* C12: every command issued through _git_redirected (checkout, diff-index, stash,
\* detach, add, commit, tag, push, pull, stash pop) is echoed before it runs: in the
\* output of an operation each run of a command directly follows the echo of that
\* command, and the commands run are the commands issued.
C12_EchoBeforeExecution ==
    \A c \in Callers :
        /\ \A i \in 1 .. Len(out[c]) :
              out[c][i].event = "exec" => i > 1 /\ out[c][i - 1] = Echo(out[c][i].text)
        /\ [i \in 1 .. Len(ExecEvents(out[c])) |-> ExecEvents(out[c])[i].text]
              = CmdNames(issued[c])

C12_Witness ==
    /\ Returned(1, "prepare_repo")
    /\ out[1] = <<Echo("checkout"), Executed("checkout"),
                  Echo("diff-index"), Executed("diff-index"),
                  Message("Stashing local changes for later recovery"),
                  Echo("stash"), Executed("stash"),
                  Echo("detach"), Executed("detach")>>

\* The developer's work at path p is on disk or in an entry of the stash stack.
WorkHeld(c, p) ==
    \/ wt[p] = snap[c].wt[p]
    \/ \E i \in 1 .. Len(stash) : stash[i].wt[p] = snap[c].wt[p]

PopFailed(c) ==
    /\ pc[c] = "aborted" /\ issued[c] # <<>>
    /\ issued[c][Len(issued[c])].cmd = "stash pop"

\* C13: in every state of the protocol, the states after a fatal failure of a command
\* included, the developer's uncommitted changes of before prepare_repo are in the
\* working tree or in an entry of the stash stack; after a failed stash pop in
\* restore_repo(True) the entry prepare_repo made is still on the stack and HEAD is on the
\* branch.
C13_WorkNeverLost ==
    \A c \in Sequential :
        /\ cyc[c] # "none" => \A p \in Paths : Work(c, p) => WorkHeld(c, p)
        /\ cyc[c] # "none" /\ PopFailed(c) =>
              /\ HEAD = 0
              /\ snap[c].dirty => Head(stash) = [base |-> snap[c].tree, index |-> snap[c].index,
                                                 wt |-> snap[c].wt]

\* C14: the dirty probe is never fatal: whatever its exit code prepare_repo goes on; the
\* stash command is issued next exactly when that exit code is not 0, and a prepare_repo
\* that returns (its other commands succeeded) returns True exactly when the probe's exit
\* code is not 0, which is exactly when it issued the stash command.
C14_ProbeNeverFatal ==
    \A c \in Sequential :
        \A i \in 1 .. Len(issued[c]) :
            issued[c][i].cmd = "diff-index" =>
                /\ i = Len(issued[c]) =>
                      pc[c] = IF issued[c][i].rc # 0 THEN "stash" ELSE "detach"
                /\ i < Len(issued[c]) =>
                      (issued[c][i + 1].cmd = "stash" <=> issued[c][i].rc # 0)
                /\ Returned(c, "prepare_repo") =>
                      /\ ret[c] = (issued[c][i].rc # 0)
                      /\ StashIssued(c) = ret[c]

\* prepare_repo has returned True on a clean tree whose probe failed.
C14_Witness ==
    /\ Returned(1, "prepare_repo") /\ CleanAtPrepare(1)
    /\ issued[1][2] = Cmd("diff-index", 128) /\ ret[1] = TRUE /\ StashIssued(1)

PopIssued(c) == \E i \in 1 .. Len(issued[c]) : issued[c][i].cmd = "stash pop"

\* C15: restore_repo(s) first checks out the branch and issues stash pop only after that
\* checkout exited 0, and exactly when s is True; restore_repo(False) never issues stash
\* pop and leaves the stash stack as it was, older entries included.
C15_CheckoutThenPop ==
    [][\A c \in Sequential :
          /\ pc'[c] = "pop" =>
                arg'[c] = TRUE /\ issued'[c] = <<Cmd("checkout", 0)>> /\ HEAD' = 0
          /\ \A i \in 1 .. Len(issued'[c]) :
                issued'[c][i].cmd = "stash pop" =>
                    i = 2 /\ issued'[c][1] = Cmd("checkout", 0) /\ arg'[c] = TRUE
          /\ Returned(c, "restore_repo")' => (PopIssued(c)' <=> arg'[c] = TRUE)
          /\ calls'[c] # calls[c] /\ Returned(c, "restore_repo")' /\ arg'[c] = FALSE =>
                stash' = stash]_vars

\* restore_repo(True) has popped an entry after its checkout; an older entry is left.
C15_Witness ==
    /\ Returned(1, "restore_repo") /\ arg[1] = TRUE
    /\ issued[1] = <<Cmd("checkout", 0), Cmd("stash pop", 0)>> /\ stash = <<OldStash>>

\* C16: with two interleaved cycles on the same path a cycle's commit can be made while
\* HEAD is attached to the branch, and it then advances the branch: a commit of a cycle
\* made on an attached HEAD becomes the branch tip, which only happens when another
\* process has been running operations on the path; made on a detached HEAD it leaves the
\* branch where it was.
C16_AttachedCommitAdvancesBranch ==
    [][\A c \in Callers :
          cyc[c] = "committing" /\ made'[c] # made[c] /\ made'[c] # 0 =>
              /\ commits'[made'[c]].parent = HeadCommit
              /\ IF HEAD = 0
                 THEN /\ branch' = made'[c] /\ branch' # snap[c].branch
                      /\ \E d \in Callers \ {c} : calls[d] > 0
                 ELSE branch' = branch /\ HEAD' = made'[c]]_vars

\* Caller 1 has detached HEAD in prepare_repo and then made its commit on the branch:
\* caller 2 checked the branch out in between.
C16_Witness ==
    /\ cyc[1] = "committing" /\ made[1] # 0 /\ HEAD = 0
    /\ branch = made[1] /\ branch # snap[1].branch
    /\ cyc[2] \in {"restoringP", "restoredP"}

\* C17: update_repository issues the checkout of the branch and then, only when the
\* checkout exited 0, the pull, and no other command; its steps leave the stash stack,
\* the tags and the remote as they are, and it returns with HEAD attached to the branch.
C17_UpdateChecksOutAndPulls ==
    [][\A c \in Sequential :
          /\ pc'[c] = "pull" => issued'[c] = <<Cmd("checkout", 0)>> /\ HEAD' = 0
          /\ \A i \in 1 .. Len(issued'[c]) :
                issued'[c][i].cmd = "pull" => i = 2 /\ issued'[c][1] = Cmd("checkout", 0)
          /\ pc[c] = "pull" \/ pc'[c] = "pull" =>
                /\ stash' = stash /\ tags' = tags
                /\ remoteBranch' = remoteBranch /\ remoteTags' = remoteTags
          /\ Returned(c, "update_repository")' =>
                /\ issued'[c] = <<Cmd("checkout", 0), Cmd("pull", 0)>>
                /\ HEAD' = 0]_vars

\* update_repository has returned after a fast-forward of the branch to the remote's.
C17_Witness ==
    /\ Returned(1, "update_repository") /\ HEAD = 0
    /\ branch = remoteBranch /\ wt = commits[remoteBranch].tree /\ stash # <<>>

\* C18: whenever prepare_repo returns True the entry on top of the stash stack was made
\* by that call (the stack below it is the stack of before), also when the probe exited
\* non-zero with nothing to stash; the stash pop of the matching restore_repo(True) then
\* removes that entry and none that was there before.
C18_PopsOwnEntry ==
    \A c \in Sequential :
        /\ cyc[c] = "prepared" /\ Returned(c, "prepare_repo") /\ ret[c] = TRUE =>
              stash # <<>> /\ Tail(stash) = snap[c].stash
        /\ cyc[c] \in {"restoredP", "restoredC"} /\ ret[c] = TRUE =>
              stash = snap[c].stash

AfterCommitAndTag == {"committed", "restoringC", "restoredC"}

\* C19: after prepare_repo, the build and a returned commit_and_tag(T), the commit T names
\* was created by that call and its first parent is the tip of the branch, so that, the
\* branch not having moved, get_latest_tag_commit(T) returns what get_commit() returns;
\* a tag is only ever created on the commit the same call has just made: when the commit
\* command fails, no tag is created and nothing is pushed.
C19_TagOnNewCommit ==
    [][\A c \in Sequential :
          /\ tags' # tags =>
                /\ pc[c] = "tag" /\ issued[c] = <<Cmd("add", 0), Cmd("commit", 0)>>
                /\ made[c] = Len(commits) /\ made[c] > Len(InitCommits)
                /\ tags' = tags \cup {[name |-> arg[c], commit |-> made[c], date |-> clock]}
          /\ remoteTags' # remoteTags =>
                pc[c] = "push" /\ issued[c][2] = Cmd("commit", 0) /\ issued[c][3] = Cmd("tag", 0)
          /\ cyc'[c] \in AfterCommitAndTag =>
                /\ TagCommit(snap[c].tag)' = made'[c]
                /\ commits'[made'[c]].parent = branch' /\ branch' = snap'[c].branch
          /\ cyc'[c] \in AfterCommitAndTag /\ result'.op = "get_commit" =>
                result'.value = ShortHash(commits'[made'[c]].parent)
          /\ /\ cyc'[c] \in AfterCommitAndTag
             /\ result'.op = "get_latest_tag_commit" /\ result'.pattern = snap'[c].tag
             => /\ result'.raised = ""
                /\ result'.value = ShortHash(commits'[made'[c]].parent)
                /\ result'.value = Lower(ShortHash(branch'))]_vars

\* get_latest_tag_commit(T) has been asked after commit_and_tag(T) while an older tag
\* matches the pattern T as well.
C19_Witness ==
    /\ cyc[1] \in AfterCommitAndTag /\ snap[1].built
    /\ result.op = "get_latest_tag_commit" /\ result.pattern = snap[1].tag
    /\ result.value = ShortHash(branch) /\ Cardinality(tags) > 1

====
